---- MODULE Spec2Model ----
(***************************************************************************)
(* Model of the Gmail RAG query path: the interactive loop of main.py      *)
(* (query_emails), the pipeline of rag_core/generate_answer.py             *)
(* (generate_answer, build_prompt, generate_llm_answer, get_llm), the      *)
(* provider factory and the Ollama provider of llm/providers.py, and the   *)
(* boundary calls of embedding/embed_texts.py and vector_db/vector_store.py*)
(*                                                                         *)
(* Python strings are TLA+ strings: len() is Len, + and f-strings are \o.  *)
(* Scores are cosine similarities scaled by 100 to stay in the integers.   *)
(***************************************************************************)
EXTENDS Integers, Sequences, FiniteSets, TLC

(***************************************************************************)
(* Program constants (config/settings.py) and bounds of the model.         *)
(***************************************************************************)
MAX_CONTEXT_LENGTH == 3000
TOP_K_RESULTS == 5
EMBED_TIMEOUT == 30

\* number of stored records the index can answer from
NumPool == 8
\* number of distinct lines the user can type at the prompt
NumLines == 9
\* number of distinct texts the generator can reply with
NumAnswers == 2
\* number of distinct emails the mailbox can hold
NumEmails == 5
\* largest number of emails one fetch returns
MaxEmails == 3

(***************************************************************************)
(* String helpers (Python str methods used by the code).                   *)
(***************************************************************************)
RECURSIVE Rep(_, _)
\* s * n
Rep(s, n) ==
    IF n = 0 THEN ""
    ELSE IF n % 2 = 0 THEN LET h == Rep(s, n \div 2) IN h \o h
    ELSE s \o Rep(s, n - 1)

IsSpace(c) == c \in {" ", "\n", "\t", "\r"}

RECURSIVE LStrip(_)
LStrip(s) ==
    IF Len(s) = 0 THEN s
    ELSE IF IsSpace(SubSeq(s, 1, 1)) THEN LStrip(SubSeq(s, 2, Len(s)))
    ELSE s

RECURSIVE RStrip(_)
RStrip(s) ==
    IF Len(s) = 0 THEN s
    ELSE IF IsSpace(SubSeq(s, Len(s), Len(s))) THEN RStrip(SubSeq(s, 1, Len(s) - 1))
    ELSE s

\* str.strip()
Strip(s) == RStrip(LStrip(s))

UpperLetters == "ABCDEFGHIJKLMNOPQRSTUVWXYZ"
LowerLetters == "abcdefghijklmnopqrstuvwxyz"

LowerChar(c) ==
    IF \E i \in 1..26 : SubSeq(UpperLetters, i, i) = c
    THEN LET i == CHOOSE j \in 1..26 : SubSeq(UpperLetters, j, j) = c
         IN SubSeq(LowerLetters, i, i)
    ELSE c

RECURSIVE Lower(_)
\* str.lower()
Lower(s) ==
    IF Len(s) = 0 THEN s
    ELSE IF Len(s) = 1 THEN LowerChar(s)
    ELSE LET h == Len(s) \div 2
         IN Lower(SubSeq(s, 1, h)) \o Lower(SubSeq(s, h + 1, Len(s)))

RECURSIVE Join(_, _)
\* sep.join(parts)
Join(sep, parts) ==
    IF Len(parts) = 0 THEN ""
    ELSE IF Len(parts) = 1 THEN parts[1]
    ELSE parts[1] \o sep \o Join(sep, Tail(parts))

RECURSIVE PyListItems(_)
PyListItems(names) ==
    IF Len(names) = 0 THEN ""
    ELSE IF Len(names) = 1 THEN "'" \o names[1] \o "'"
    ELSE "'" \o names[1] \o "', " \o PyListItems(Tail(names))

\* str(list_of_str), as an f-string renders a list
PyListRepr(names) == "[" \o PyListItems(names) \o "]"

\* dict.get(key, default)
Get(md, key, default) == IF key \in DOMAIN md THEN md[key] ELSE default

(***************************************************************************)
(* Inputs.  The index holds NumPool records; a query returns at most       *)
(* TOP_K_RESULTS of them, without repetition, in non-increasing score      *)
(* order.  body_preview is at most 1000 characters and snippet at most 500 *)
(* (vector_store.prepare_email_vectors).                                   *)
(***************************************************************************)
NoMetadata == [k \in {} |-> ""]

MetadataAt(i) ==
    CASE i = 1 -> ("subject" :> "Project meeting tomorrow") @@ ("from" :> "a@x.com")
                  @@ ("date" :> "Mon")
                  @@ ("body_preview" :> "Our next meeting is tomorrow at 2 PM in room B.")
                  @@ ("snippet" :> "Our next meeting")
      [] i = 2 -> ("subject" :> "Quarterly report") @@ ("date" :> "Tue")
                  @@ ("body_preview" :> Rep("a", 994)) @@ ("snippet" :> "Q3 numbers attached")
      [] i = 3 -> ("subject" :> "Budget") @@ ("from" :> "cfo@x.com") @@ ("date" :> "Wed")
                  @@ ("body_preview" :> Rep("b", 948))
      [] i = 4 -> ("subject" :> "Roadmap") @@ ("from" :> "pm@x.com") @@ ("date" :> "Thu")
                  @@ ("body_preview" :> Rep("c", 758)) @@ ("snippet" :> "Roadmap draft")
      [] i = 5 -> ("subject" :> "Offsite") @@ ("from" :> "hr@x.com") @@ ("date" :> "Fri")
                  @@ ("body_preview" :> Rep("d", 768))
      [] i = 6 -> ("subject" :> "Lunch") @@ ("from" :> "b@x.com") @@ ("date" :> "Sat")
                  @@ ("body_preview" :> "") @@ ("snippet" :> "Lunch on Friday?")
      [] i = 7 -> NoMetadata
      [] i = 8 -> ("from" :> "c@x.com") @@ ("snippet" :> Rep("e", 500))
      [] OTHER -> ("subject" :> ("Note " \o ToString(i)))

ScoreAt(i) ==
    CASE i = 1 -> 97
      [] i = 2 -> 95
      [] i = 3 -> 90
      [] i = 4 -> 85
      [] i = 5 -> 85
      [] i = 6 -> 80
      [] i = 7 -> 80
      [] i = 8 -> 75
      [] OTHER -> 60

\* a match object of the index: id, score, metadata
MatchAt(i) == [id |-> "m" \o ToString(i), score |-> ScoreAt(i), metadata |-> MetadataAt(i)]

RECURSIVE RankedFrom(_, _)
\* the rank-ordered results that start after rank position `last`, of length <= n
RankedFrom(last, n) ==
    {<<>>} \cup
    (IF n = 0 THEN {}
     ELSE UNION { { <<MatchAt(i)>> \o t : t \in RankedFrom(i, n - 1) }
                  : i \in (last + 1)..NumPool })

Swap45(ms) ==
    [i \in 1..Len(ms) |->
        IF ms[i].id = "m4" THEN MatchAt(5)
        ELSE IF ms[i].id = "m5" THEN MatchAt(4)
        ELSE ms[i]]

\* every result list index.query can return: records 4 and 5 tie, in either order
QueryResults ==
    LET R == RankedFrom(0, TOP_K_RESULTS) IN R \cup { Swap45(ms) : ms \in R }

LineAt(i) ==
    CASE i = 1 -> "quit"
      [] i = 2 -> " EXIT"
      [] i = 3 -> "Q "
      [] i = 4 -> ""
      [] i = 5 -> "   "
      [] i = 6 -> " What is my next meeting about? "
      [] i = 7 -> Rep("w", 1900)
      [] i = 8 -> Rep("z", 3001)
      [] i = 9 -> "quit now"
      [] OTHER -> "exit"

InputLines == { LineAt(i) : i \in 1..NumLines }

AnswerAt(i) ==
    CASE i = 1 -> "  The meeting is tomorrow at 2 PM.\n"
      [] i = 2 -> ""
      [] OTHER -> "I do not know."

AnswerTexts == { AnswerAt(i) : i \in 1..NumAnswers }

\* provider names a caller can hand to the factory
ProviderNames == {"ollama", "replicate", "openai", ""}

(***************************************************************************)
(* rag_core/generate_answer.py: the pure parts.                            *)
(***************************************************************************)
Instruction ==
    "Using only the CONTEXT above, answer the QUESTION as accurately and completely as possible."

NoMatchAnswer == "No relevant emails found for your question."

\* build_prompt with the contexts joined by a single newline
build_prompt_newline(q, email_snippets) ==
    LET context == Join("\n", email_snippets)
    IN "QUESTION:\n" \o q \o "\n\n"
       \o "CONTEXT:\n" \o context \o "\n\n"
       \o Instruction

build_prompt(q, email_snippets) ==
    LET context == Join("\n\n", email_snippets)
    IN "QUESTION:\n" \o q \o "\n\n"
       \o "CONTEXT:\n" \o context \o "\n\n"
       \o Instruction

\* the content taken from snippet first and body_preview second
ContentOf_snippetFirst(metadata) ==
    IF "snippet" \in DOMAIN metadata /\ metadata["snippet"] # ""
    THEN metadata["snippet"]
    ELSE Get(metadata, "body_preview", "")

\* metadata.get('body_preview') or metadata.get('snippet', '')
ContentOf(metadata) ==
    IF "body_preview" \in DOMAIN metadata /\ metadata["body_preview"] # ""
    THEN metadata["body_preview"]
    ELSE Get(metadata, "snippet", "")

ContextBlock(metadata) ==
    "Subject: " \o Get(metadata, "subject", "N/A") \o "\n"
    \o "From: " \o Get(metadata, "from", "N/A") \o "\n"
    \o "Date: " \o Get(metadata, "date", "N/A") \o "\n"
    \o "Content: " \o ContentOf(metadata) \o "\n"

SourceOf(match) ==
    [id |-> match.id,
     score |-> match.score,
     subject |-> Get(match.metadata, "subject", "N/A"),
     from |-> Get(match.metadata, "from", "N/A"),
     date |-> Get(match.metadata, "date", "N/A"),
     snippet |-> Get(match.metadata, "snippet", "")]

\* the email_contexts list after the loop over matches
EmailContexts(ms) == [i \in 1..Len(ms) |-> ContextBlock(ms[i].metadata)]

\* source_emails built by inserting at the front
SourceEmails_reversed(ms) == [i \in 1..Len(ms) |-> SourceOf(ms[Len(ms) + 1 - i])]

\* the source_emails list after the loop over matches
SourceEmails(ms) == [i \in 1..Len(ms) |-> SourceOf(ms[i])]

\* the empty check left out
NoMatches_never(ms) == FALSE

\* if not matches
NoMatches(ms) == Len(ms) = 0

\* if len(prompt) > MAX_CONTEXT_LENGTH
TooLong(p) == Len(p) > MAX_CONTEXT_LENGTH

AvailableContextLength(q) == MAX_CONTEXT_LENGTH - Len(q) - 100

\* if current_length + len(context) < available_context_length
Fits(current_length, context, available_context_length) ==
    current_length + Len(context) < available_context_length

RECURSIVE TruncateLoop_continue(_, _, _, _, _)
\* the for loop with `continue` in place of `break`
TruncateLoop_continue(ctxs, i, truncated, current_length, available) ==
    IF i > Len(ctxs) THEN truncated
    ELSE IF Fits(current_length, ctxs[i], available)
         THEN TruncateLoop_continue(ctxs, i + 1, Append(truncated, ctxs[i]),
                                    current_length + Len(ctxs[i]), available)
         ELSE TruncateLoop_continue(ctxs, i + 1, truncated, current_length, available)

RECURSIVE TruncateLoop(_, _, _, _, _)
\* the for loop over email_contexts, from position i on
TruncateLoop(ctxs, i, truncated, current_length, available) ==
    IF i > Len(ctxs) THEN truncated
    ELSE IF Fits(current_length, ctxs[i], available)
         THEN TruncateLoop(ctxs, i + 1, Append(truncated, ctxs[i]),
                           current_length + Len(ctxs[i]), available)
         ELSE truncated

\* the contexts that the prompt handed to the generator is built from
PromptContexts(q, ctxs) ==
    IF TooLong(build_prompt(q, ctxs))
    THEN TruncateLoop(ctxs, 1, <<>>, 0, AvailableContextLength(q))
    ELSE ctxs

(***************************************************************************)
(* Results and errors.  An error carries the Python exception class that   *)
(* reaches the caller, the stage that raised it and its message.           *)
(***************************************************************************)
NoResult ==
    [status |-> "none", answer |-> "", sources |-> <<>>, kind |-> "", stage |-> "", msg |-> ""]

Returned(a, srcs) ==
    [status |-> "ok", answer |-> a, sources |-> srcs, kind |-> "", stage |-> "", msg |-> ""]

Raised(k, st, m) ==
    [status |-> "err", answer |-> "", sources |-> <<>>, kind |-> k, stage |-> st, msg |-> m]

(***************************************************************************)
(* llm/providers.py                                                        *)
(***************************************************************************)
\* list(providers.keys())
RegisteredNames == <<"ollama">>

IsRegistered(provider_name) == \E i \in 1..Len(RegisteredNames) : RegisteredNames[i] = provider_name

NoProvider == [class |-> "", capabilities |-> {}]

OllamaProvider == [class |-> "OllamaProvider", capabilities |-> {"generate"}]

\* the factory falling back to the default provider for an unknown name
get_llm_provider_fallback(provider_name) ==
    [status |-> "ok", kind |-> "", provider |-> OllamaProvider, msg |-> ""]

get_llm_provider(provider_name) ==
    IF ~IsRegistered(provider_name)
    THEN [status |-> "err", kind |-> "ValueError", provider |-> NoProvider,
          msg |-> "Unknown provider: " \o provider_name
                  \o ". Available: " \o PyListRepr(RegisteredNames)]
    ELSE [status |-> "ok", kind |-> "", provider |-> OllamaProvider, msg |-> ""]

\* rag_core/generate_answer.py get_llm, for a configured provider name
get_llm(configured) ==
    IF configured = "ollama"
    THEN get_llm_provider("ollama")
    ELSE [status |-> "err", kind |-> "ValueError", provider |-> NoProvider,
          msg |-> "Unknown LLM provider: " \o configured \o ". Available: 'ollama'"]

\* what the HTTP exchange of a POST can end in
ReplyKinds == {"ok", "connection_error", "http_error", "invalid_json", "missing_field"}

\* OllamaProvider.generate, given how the POST ended.  An invalid JSON body
\* makes response.json() raise requests.exceptions.JSONDecodeError, which is a
\* RequestException; a body without the 'response' key makes the subscript
\* raise KeyError, which no except clause names.
OllamaGenerate(reply, text) ==
    CASE reply = "ok" -> Returned(Strip(text), <<>>)
      [] reply = "connection_error" ->
            Raised("Exception", "generate", "Ollama API error: connection refused")
      [] reply = "http_error" ->
            Raised("Exception", "generate", "Ollama API error: 500 Server Error")
      [] reply = "invalid_json" ->
            Raised("Exception", "generate", "Ollama API error: Expecting value")
      [] reply = "missing_field" -> Raised("KeyError", "generate", "'response'")

(***************************************************************************)
(* embedding/embed_texts.py: get_embeddings([question]), one POST with     *)
(* timeout=30.                                                             *)
(***************************************************************************)
EmbedOutcome(reply) ==
    CASE reply = "ok" -> Returned("", <<>>)
      [] reply = "connection_error" ->
            Raised("Exception", "embed", "Ollama embedding API error: connection refused")
      [] reply = "http_error" ->
            Raised("Exception", "embed", "Ollama embedding API error: 500 Server Error")
      [] reply = "timeout" ->
            Raised("Exception", "embed", "Ollama embedding API error: Read timed out")
      [] reply = "invalid_json" ->
            Raised("Exception", "embed", "Ollama embedding API error: Expecting value")
      [] reply = "missing_field" ->
            Raised("Exception", "embed", "Unexpected response format from Ollama: 'embedding'")

(***************************************************************************)
(* main.py query_emails                                                    *)
(***************************************************************************)
ExitWords == {"quit", "exit", "q"}

\* `except ValueError` in place of `except Exception`
Catches_valueErrorOnly(kind) == kind = "ValueError"

\* the classes `except Exception` catches
Catches(kind) ==
    kind \in {"Exception", "ValueError", "KeyError", "PineconeException"}

\* requests.post(..., timeout=None): wait for the reply without limit
NoTimeout == [set |-> FALSE, seconds |-> 0]

\* requests.post(..., timeout=30)
EmbedTimeoutArg == [set |-> TRUE, seconds |-> EMBED_TIMEOUT]

NoFactory == [called |-> FALSE, name |-> "", status |-> "", kind |-> "",
              provider |-> NoProvider, msg |-> ""]

(***************************************************************************)
(* State.                                                                  *)
(***************************************************************************)
VARIABLES
    pc,               \* where query_emails / generate_answer stands
    LLM_PROVIDER,     \* config.settings.LLM_PROVIDER (environment)
    indexExists,      \* whether the Pinecone index exists
    line,             \* the last line read by input()
    question,         \* generate_answer's argument
    matches,          \* result of query_similar
    email_contexts,   \* generate_answer local
    source_emails,    \* generate_answer local
    prompt_contexts,  \* the contexts of the final build_prompt call
    prompt,           \* generate_answer local
    timeout,          \* timeout of the HTTP request in flight
    result,           \* what generate_answer returned or raised
    output,           \* what the loop printed for the last question
    embedCalls,       \* embedding POSTs made by this invocation
    queryCalls,       \* index queries made by this invocation
    genCalls,         \* generate POSTs made by this invocation
    constructed,      \* provider objects constructed by the current call
    factory,          \* outcome of a direct get_llm_provider call
    \* two generate_answer invocations running concurrently
    cpc,              \* where each invocation stands
    cin,              \* the external responses each invocation meets
    cres,             \* what each invocation returned or raised
    \* main.py ingest_emails
    ipc,              \* where ingest_emails stands
    emails,           \* the fetched emails
    texts,            \* ingest_emails local
    valid_emails,     \* ingest_emails local
    partial,          \* get_embeddings' local list `embeddings`
    embeddings,       \* ingest_emails local, the list get_embeddings returned
    vectors,          \* ingest_emails local
    upserted          \* the records handed to index.upsert

concVars == <<cpc, cin, cres>>
ingestVars == <<ipc, emails, texts, valid_emails, partial, embeddings, vectors, upserted>>

\* what the query loop leaves alone
elsewhere == <<concVars, ingestVars>>

vars == <<pc, LLM_PROVIDER, indexExists, line, question, matches, email_contexts,
          source_emails, prompt_contexts, prompt, timeout, result, output,
          embedCalls, queryCalls, genCalls, constructed, factory, concVars, ingestVars>>

locals == <<question, matches, email_contexts, source_emails, prompt_contexts, prompt>>
counters == <<embedCalls, queryCalls, genCalls>>
env == <<LLM_PROVIDER, line>>

\* no concurrent invocations under way
ConcIdle ==
    /\ cpc = <<>>
    /\ cin = <<>>
    /\ cres = <<>>

\* no ingestion under way
IngestIdle ==
    /\ ipc = "idle"
    /\ emails = <<>>
    /\ texts = <<>>
    /\ valid_emails = <<>>
    /\ partial = <<>>
    /\ embeddings = <<>>
    /\ vectors = <<>>
    /\ upserted = <<>>

\* the query loop not started
QueryIdle ==
    /\ pc = "idle"
    /\ line = ""
    /\ question = ""
    /\ matches = <<>>
    /\ email_contexts = <<>>
    /\ source_emails = <<>>
    /\ prompt_contexts = <<>>
    /\ prompt = ""
    /\ timeout = NoTimeout
    /\ result = NoResult
    /\ output = ""
    /\ embedCalls = 0
    /\ queryCalls = 0
    /\ genCalls = 0
    /\ constructed = 0
    /\ factory = NoFactory

queryVars == <<pc, line, question, matches, email_contexts, source_emails, prompt_contexts,
               prompt, timeout, result, output, embedCalls, queryCalls, genCalls,
               constructed, factory>>

Init ==
    /\ ConcIdle
    /\ IngestIdle
    /\ pc = "start"
    /\ LLM_PROVIDER \in {"ollama", "replicate"}
    /\ indexExists \in BOOLEAN
    /\ line = ""
    /\ question = ""
    /\ matches = <<>>
    /\ email_contexts = <<>>
    /\ source_emails = <<>>
    /\ prompt_contexts = <<>>
    /\ prompt = ""
    /\ timeout = NoTimeout
    /\ result = NoResult
    /\ output = ""
    /\ embedCalls = 0
    /\ queryCalls = 0
    /\ genCalls = 0
    /\ constructed = 0
    /\ factory = NoFactory

(***************************************************************************)
(* query_emails up to the loop: validate_config, init_pinecone,            *)
(* describe_index_stats; any failure prints and returns.                   *)
(***************************************************************************)
Startup(configOk, pineconeOk) ==
    /\ pc = "start"
    /\ IF configOk /\ pineconeOk
       THEN /\ pc' = "prompt"
            /\ indexExists' = TRUE
       ELSE /\ pc' = "aborted"
            /\ indexExists' = indexExists
    /\ UNCHANGED <<elsewhere, env, locals, counters, timeout, result, output, constructed, factory>>

(***************************************************************************)
(* One pass of `while True` up to the call of generate_answer.             *)
(***************************************************************************)
ReadLine(l) ==
    /\ pc = "prompt"
    /\ line' = l
    /\ LET query == Strip(l) IN
         IF Lower(query) \in ExitWords
         THEN pc' = "exited" /\ question' = ""
         ELSE IF query = ""
              THEN pc' = "prompt" /\ question' = ""
              ELSE pc' = "ga_init" /\ question' = query
    /\ matches' = <<>>
    /\ email_contexts' = <<>>
    /\ source_emails' = <<>>
    /\ prompt_contexts' = <<>>
    /\ prompt' = ""
    /\ result' = NoResult
    /\ output' = ""
    /\ embedCalls' = 0
    /\ queryCalls' = 0
    /\ genCalls' = 0
    /\ constructed' = 0
    /\ factory' = NoFactory
    /\ UNCHANGED <<elsewhere, LLM_PROVIDER, indexExists, timeout>>

(***************************************************************************)
(* generate_answer, statement by statement.                                *)
(***************************************************************************)
\* index = init_pinecone()
InitPinecone(ok) ==
    /\ pc = "ga_init"
    /\ IF ok
       THEN /\ indexExists' = TRUE
            /\ pc' = "ga_embed"
            /\ result' = result
       ELSE /\ indexExists' = indexExists
            /\ pc' = "ga_done"
            /\ result' = Raised("PineconeException", "init", "Pinecone API error")
    /\ UNCHANGED <<elsewhere, env, locals, counters, timeout, output, constructed, factory>>

\* get_embeddings([question]): the POST is sent
EmbedSend ==
    /\ pc = "ga_embed"
    /\ pc' = "embed_wait"
    /\ embedCalls' = embedCalls + 1
    /\ timeout' = EmbedTimeoutArg
    /\ UNCHANGED <<elsewhere, env, indexExists, locals, queryCalls, genCalls, result, output,
                   constructed, factory>>

\* a failed embedding request sent once more before giving up
EmbedFinish_retryOnce(outcome) ==
    /\ timeout' = NoTimeout
    /\ IF outcome.status = "ok"
       THEN pc' = "ga_query" /\ result' = result
       ELSE IF embedCalls < 2
            THEN pc' = "ga_embed" /\ result' = result
            ELSE pc' = "ga_done" /\ result' = outcome
    /\ UNCHANGED <<elsewhere, env, indexExists, locals, counters, output, constructed, factory>>

EmbedFinish(outcome) ==
    /\ timeout' = NoTimeout
    /\ IF outcome.status = "ok"
       THEN pc' = "ga_query" /\ result' = result
       ELSE pc' = "ga_done" /\ result' = outcome
    /\ UNCHANGED <<elsewhere, env, indexExists, locals, counters, output, constructed, factory>>

\* the embedding service answers
EmbedReply(reply) ==
    /\ pc = "embed_wait"
    /\ EmbedFinish(EmbedOutcome(reply))

\* the embedding service does not answer within the timeout
EmbedTimeout ==
    /\ pc = "embed_wait"
    /\ timeout.set
    /\ EmbedFinish(EmbedOutcome("timeout"))

\* matches = query_similar(index, question_embedding, top_k=TOP_K_RESULTS)
QueryIndex(ok, ms) ==
    /\ pc = "ga_query"
    /\ queryCalls' = queryCalls + 1
    /\ IF ok
       THEN /\ matches' = ms
            /\ pc' = "ga_matched"
            /\ result' = result
       ELSE /\ matches' = matches
            /\ pc' = "ga_done"
            /\ result' = Raised("PineconeException", "query", "Pinecone API error")
    /\ UNCHANGED <<elsewhere, env, indexExists, question, email_contexts, source_emails,
                   prompt_contexts, prompt, embedCalls, genCalls, timeout, output,
                   constructed, factory>>

\* the sources cut down to the matches whose block stayed in the prompt
BuildPrompt_sourcesOfKeptBlocks ==
    /\ pc = "ga_matched"
    /\ IF NoMatches(matches)
       THEN /\ pc' = "ga_done"
            /\ result' = Returned(NoMatchAnswer, <<>>)
            /\ UNCHANGED <<email_contexts, source_emails, prompt_contexts, prompt>>
       ELSE /\ pc' = "ga_generate"
            /\ result' = result
            /\ email_contexts' = EmailContexts(matches)
            /\ source_emails' =
                  SubSeq(SourceEmails(matches), 1,
                         Len(PromptContexts(question, EmailContexts(matches))))
            /\ prompt_contexts' = PromptContexts(question, EmailContexts(matches))
            /\ prompt' = build_prompt(question,
                                      PromptContexts(question, EmailContexts(matches)))
    /\ UNCHANGED <<elsewhere, env, indexExists, question, matches, counters, timeout, output,
                   constructed, factory>>

\* from `if not matches` to the final prompt
BuildPrompt ==
    /\ pc = "ga_matched"
    /\ IF NoMatches(matches)
       THEN /\ pc' = "ga_done"
            /\ result' = Returned(NoMatchAnswer, <<>>)
            /\ UNCHANGED <<email_contexts, source_emails, prompt_contexts, prompt>>
       ELSE /\ pc' = "ga_generate"
            /\ result' = result
            /\ email_contexts' = EmailContexts(matches)
            /\ source_emails' = SourceEmails(matches)
            /\ prompt_contexts' = PromptContexts(question, EmailContexts(matches))
            /\ prompt' = build_prompt(question,
                                      PromptContexts(question, EmailContexts(matches)))
    /\ UNCHANGED <<elsewhere, env, indexExists, question, matches, counters, timeout, output,
                   constructed, factory>>

\* generate_llm_answer: llm = get_llm(), then llm.generate sends its POST
GenSend ==
    /\ pc = "ga_generate"
    /\ LET llm == get_llm(LLM_PROVIDER) IN
         IF llm.status = "ok"
         THEN /\ pc' = "gen_wait"
              /\ constructed' = constructed + 1
              /\ genCalls' = genCalls + 1
              /\ result' = result
         ELSE /\ pc' = "ga_done"
              /\ constructed' = constructed
              /\ genCalls' = genCalls
              /\ result' = Raised(llm.kind, "get_llm", llm.msg)
    /\ timeout' = NoTimeout
    /\ UNCHANGED <<elsewhere, env, indexExists, locals, embedCalls, queryCalls, output, factory>>

\* the generator answers; generate returns or raises, generate_answer with it
GenReply(reply, text) ==
    /\ pc = "gen_wait"
    /\ LET out == OllamaGenerate(reply, text) IN
         IF out.status = "ok"
         THEN result' = Returned(out.answer, source_emails)
         ELSE result' = out
    /\ pc' = "ga_done"
    /\ UNCHANGED <<elsewhere, env, indexExists, locals, counters, timeout, output, constructed, factory>>

\* generate's POST carries no timeout: while the generator stays silent the
\* invocation stays in gen_wait.

(***************************************************************************)
(* Back in the loop: print the answer, or catch and print the error.       *)
(***************************************************************************)
\* generate_answer's frame (its locals and outcome) is gone once it is handled.
Display ==
    /\ pc = "ga_done"
    /\ IF result.status = "ok"
       THEN pc' = "prompt" /\ output' = result.answer
       ELSE IF Catches(result.kind)
            THEN pc' = "prompt" /\ output' = "Error generating answer: " \o result.msg
            ELSE pc' = "crashed" /\ output' = output
    /\ question' = ""
    /\ matches' = <<>>
    /\ email_contexts' = <<>>
    /\ source_emails' = <<>>
    /\ prompt_contexts' = <<>>
    /\ prompt' = ""
    /\ result' = NoResult
    /\ embedCalls' = 0
    /\ queryCalls' = 0
    /\ genCalls' = 0
    /\ constructed' = 0
    /\ UNCHANGED <<elsewhere, env, indexExists, timeout, factory>>

(***************************************************************************)
(* A caller of the factory outside the pipeline.                           *)
(***************************************************************************)
FactoryCall(provider_name) ==
    /\ pc = "prompt"
    /\ LET r == get_llm_provider(provider_name) IN
         /\ factory' = [called |-> TRUE, name |-> provider_name, status |-> r.status,
                        kind |-> r.kind, provider |-> r.provider, msg |-> r.msg]
         /\ constructed' = IF r.status = "ok" THEN 1 ELSE 0
    /\ UNCHANGED <<elsewhere, pc, env, indexExists, locals, counters, timeout, result, output>>

Next ==
    \/ \E c, p \in BOOLEAN : Startup(c, p)
    \/ \E l \in InputLines : ReadLine(l)
    \/ \E ok \in BOOLEAN : InitPinecone(ok)
    \/ EmbedSend
    \/ \E r \in ReplyKinds : EmbedReply(r)
    \/ EmbedTimeout
    \/ \E ms \in QueryResults : QueryIndex(TRUE, ms)
    \/ QueryIndex(FALSE, <<>>)
    \/ BuildPrompt
    \/ GenSend
    \/ \E r \in ReplyKinds, t \in AnswerTexts : GenReply(r, t)
    \/ Display
    \/ \E n \in ProviderNames : FactoryCall(n)

Spec == Init /\ [][Next]_vars

\* The program's own steps are taken when enabled; whether a service
\* replies, and what the user types, is up to the environment.
FairSpec ==
    /\ Spec
    /\ WF_vars(\E ok \in BOOLEAN : InitPinecone(ok))
    /\ WF_vars(EmbedSend)
    /\ WF_vars(EmbedTimeout)
    /\ WF_vars((\E ms \in QueryResults : QueryIndex(TRUE, ms)) \/ QueryIndex(FALSE, <<>>))
    /\ WF_vars(BuildPrompt)
    /\ WF_vars(GenSend)
    /\ WF_vars(Display)

(***************************************************************************)
(* Two callers invoke generate_answer at the same time (threads of one     *)
(* service, or two processes) against the same Pinecone project.  Each     *)
(* invocation has its own locals; the index of the project is shared.      *)
(* init_pinecone reads the list of indexes and, not finding the name,      *)
(* creates it; create_index of a name that exists is refused by Pinecone   *)
(* (409 ALREADY_EXISTS).                                                   *)
(***************************************************************************)
Procs == {1, 2}

\* the external responses one invocation can meet
ConcInputs ==
    [embedReply : {"ok", "http_error"},
     ms : {<<>>, <<MatchAt(1)>>, <<MatchAt(1), MatchAt(6)>>},
     genReply : {"ok", "missing_field"},
     text : {AnswerAt(1)}]

ConcInit ==
    /\ QueryIdle
    /\ IngestIdle
    /\ LLM_PROVIDER = "ollama"
    /\ indexExists \in BOOLEAN
    /\ cpc = [p \in Procs |-> "list"]
    /\ cin \in [Procs -> ConcInputs]
    /\ cres = [p \in Procs |-> NoResult]

\* if PINECONE_INDEX_NAME not in pc.list_indexes().names()
CListIndexes(p) ==
    /\ cpc[p] = "list"
    /\ cpc' = [cpc EXCEPT ![p] = IF indexExists THEN "embed" ELSE "create"]
    /\ UNCHANGED <<cin, cres, indexExists, LLM_PROVIDER, queryVars, ingestVars>>

\* pc.create_index(name=PINECONE_INDEX_NAME, ...)
CCreateIndex(p) ==
    /\ cpc[p] = "create"
    /\ IF indexExists
       THEN /\ cpc' = [cpc EXCEPT ![p] = "done"]
            /\ cres' = [cres EXCEPT ![p] =
                          Raised("PineconeException", "init", "409 ALREADY_EXISTS")]
            /\ indexExists' = indexExists
       ELSE /\ cpc' = [cpc EXCEPT ![p] = "embed"]
            /\ cres' = cres
            /\ indexExists' = TRUE
    /\ UNCHANGED <<cin, LLM_PROVIDER, queryVars, ingestVars>>

\* question_embedding = get_embeddings([question])[0]
CEmbed(p) ==
    /\ cpc[p] = "embed"
    /\ LET out == EmbedOutcome(cin[p].embedReply) IN
         IF out.status = "ok"
         THEN cpc' = [cpc EXCEPT ![p] = "query"] /\ cres' = cres
         ELSE cpc' = [cpc EXCEPT ![p] = "done"] /\ cres' = [cres EXCEPT ![p] = out]
    /\ UNCHANGED <<cin, indexExists, LLM_PROVIDER, queryVars, ingestVars>>

\* matches = query_similar(...), and the return of the sentinel on no matches
CQuery(p) ==
    /\ cpc[p] = "query"
    /\ IF NoMatches(cin[p].ms)
       THEN /\ cpc' = [cpc EXCEPT ![p] = "done"]
            /\ cres' = [cres EXCEPT ![p] = Returned(NoMatchAnswer, <<>>)]
       ELSE /\ cpc' = [cpc EXCEPT ![p] = "generate"]
            /\ cres' = cres
    /\ UNCHANGED <<cin, indexExists, LLM_PROVIDER, queryVars, ingestVars>>

\* the contexts, sources and prompt are built and the generator answers
CGenerate(p) ==
    /\ cpc[p] = "generate"
    /\ LET llm == get_llm(LLM_PROVIDER)
           out == OllamaGenerate(cin[p].genReply, cin[p].text)
       IN cres' = [cres EXCEPT ![p] =
                     IF llm.status # "ok" THEN Raised(llm.kind, "get_llm", llm.msg)
                     ELSE IF out.status = "ok"
                          THEN Returned(out.answer, SourceEmails(cin[p].ms))
                          ELSE out]
    /\ cpc' = [cpc EXCEPT ![p] = "done"]
    /\ UNCHANGED <<cin, indexExists, LLM_PROVIDER, queryVars, ingestVars>>

ConcNext ==
    \/ \E p \in Procs : CListIndexes(p)
    \/ \E p \in Procs : CCreateIndex(p)
    \/ \E p \in Procs : CEmbed(p)
    \/ \E p \in Procs : CQuery(p)
    \/ \E p \in Procs : CGenerate(p)

ConcSpec == ConcInit /\ [][ConcNext]_vars

(***************************************************************************)
(* main.py ingest_emails, with embedding/embed_texts.py get_embeddings and *)
(* vector_db/vector_store.py prepare_email_vectors.                        *)
(***************************************************************************)
\* an email as fetch_emails builds it: every key present, body and snippet
\* possibly empty
EmailAt(i) ==
    CASE i = 1 -> [id |-> "e1", threadId |-> "t1", subject |-> "Project meeting tomorrow",
                   date |-> "Mon", from |-> "a@x.com", snippet |-> "Hello team",
                   body |-> "Hello team, the meeting is at 2 PM."]
      [] i = 2 -> [id |-> "e2", threadId |-> "t1", subject |-> "Invoice", date |-> "Tue",
                   from |-> "", snippet |-> "Invoice attached", body |-> ""]
      [] i = 3 -> [id |-> "e3", threadId |-> "t3", subject |-> "(No Subject)", date |-> "",
                   from |-> "c@x.com", snippet |-> "", body |-> ""]
      [] i = 4 -> [id |-> "e4", threadId |-> "", subject |-> "Blank", date |-> "Thu",
                   from |-> "d@x.com", snippet |-> "  ", body |-> ""]
      [] i = 5 -> [id |-> "e5", threadId |-> "t5", subject |-> "Report", date |-> "Fri",
                   from |-> "e@x.com", snippet |-> Rep("s", 600), body |-> Rep("r", 1200)]
      [] OTHER -> [id |-> "e" \o ToString(i), threadId |-> "", subject |-> "Note",
                   date |-> "", from |-> "", snippet |-> "note", body |-> ""]

RECURSIVE FetchedLists(_)
\* the lists of n distinct emails a fetch can return
FetchedLists(n) ==
    IF n = 0 THEN {<<>>}
    ELSE UNION { { Append(es, EmailAt(i)) :
                     i \in { j \in 1..NumEmails :
                               \A k \in 1..(n - 1) : es[k].id # EmailAt(j).id } }
                 : es \in FetchedLists(n - 1) }
FetchResults == UNION { FetchedLists(n) : n \in 0..MaxEmails }

\* the vector the embedding model computes for a text
Embedding(text) == [embedding_of |-> text]

\* s[:n]
Slice(s, n) == IF Len(s) <= n THEN s ELSE SubSeq(s, 1, n)

\* content = email.get('body') or email.get('snippet', '')
EmailContent(email) == IF email.body # "" THEN email.body ELSE email.snippet

\* if content.strip()
HasContent(email) == Strip(EmailContent(email)) # ""

EmailText(email) == "Subject: " \o email.subject \o "\n\nContent: " \o EmailContent(email)

RECURSIVE Texts(_)
\* the list texts after the loop over emails
Texts(es) ==
    IF Len(es) = 0 THEN <<>>
    ELSE IF HasContent(es[1]) THEN <<EmailText(es[1])>> \o Texts(Tail(es))
    ELSE Texts(Tail(es))

\* valid_emails holding every fetched email, the skipped ones too
ValidEmails_all(es) == es

RECURSIVE ValidEmails(_)
\* the list valid_emails after the loop over emails
ValidEmails(es) ==
    IF Len(es) = 0 THEN <<>>
    ELSE IF HasContent(es[1]) THEN <<es[1]>> \o ValidEmails(Tail(es))
    ELSE ValidEmails(Tail(es))

\* the metadata dict of prepare_email_vectors, empty fields removed
EmailMetadata(email) ==
    LET all == ("subject" :> email.subject)
               @@ ("snippet" :> Slice(email.snippet, 500))
               @@ ("from" :> email.from)
               @@ ("date" :> email.date)
               @@ ("threadId" :> email.threadId)
               @@ ("body_preview" :> Slice(email.body, 1000))
    IN [k \in { key \in DOMAIN all : all[key] # "" } |-> all[k]]

\* for email, embedding in zip(emails, embeddings)
prepare_email_vectors(es, embs) ==
    LET n == IF Len(es) <= Len(embs) THEN Len(es) ELSE Len(embs)
    IN [i \in 1..n |-> [id |-> es[i].id, values |-> embs[i],
                        metadata |-> EmailMetadata(es[i])]]

IngestInit ==
    /\ QueryIdle
    /\ ConcIdle
    /\ LLM_PROVIDER = "ollama"
    /\ indexExists \in BOOLEAN
    /\ ipc = "fetch"
    /\ emails = <<>>
    /\ texts = <<>>
    /\ valid_emails = <<>>
    /\ partial = <<>>
    /\ embeddings = <<>>
    /\ vectors = <<>>
    /\ upserted = <<>>

ingestRest == <<LLM_PROVIDER, queryVars, concVars>>

\* validate_config, get_gmail_service, fetch_last_week_emails; a failure or
\* an empty mailbox ends the ingestion
IFetch(ok, es) ==
    /\ ipc = "fetch"
    /\ IF ok /\ Len(es) > 0
       THEN ipc' = "prepare" /\ emails' = es
       ELSE ipc' = "failed_fetch" /\ emails' = emails
    /\ UNCHANGED <<texts, valid_emails, partial, embeddings, vectors, upserted,
                   indexExists, ingestRest>>

\* the loop that fills texts and valid_emails
IPrepareTexts ==
    /\ ipc = "prepare"
    /\ texts' = Texts(emails)
    /\ valid_emails' = ValidEmails(emails)
    /\ ipc' = "embedding"
    /\ UNCHANGED <<emails, partial, embeddings, vectors, upserted, indexExists, ingestRest>>

\* one pass of get_embeddings' loop: a reply is appended, anything else raises
\* and ingest_emails returns False
IEmbedOne(reply) ==
    /\ ipc = "embedding"
    /\ Len(partial) < Len(texts)
    /\ IF EmbedOutcome(reply).status = "ok"
       THEN /\ partial' = Append(partial, Embedding(texts[Len(partial) + 1]))
            /\ ipc' = ipc
       ELSE /\ partial' = <<>>
            /\ ipc' = "failed_embed"
    /\ UNCHANGED <<emails, texts, valid_emails, embeddings, vectors, upserted,
                   indexExists, ingestRest>>

\* return embeddings
IEmbedReturn ==
    /\ ipc = "embedding"
    /\ Len(partial) = Len(texts)
    /\ embeddings' = partial
    /\ partial' = <<>>
    /\ ipc' = "init"
    /\ UNCHANGED <<emails, texts, valid_emails, vectors, upserted, indexExists, ingestRest>>

\* index = init_pinecone()
IInitPinecone(ok) ==
    /\ ipc = "init"
    /\ IF ok
       THEN ipc' = "vectors" /\ indexExists' = TRUE
       ELSE ipc' = "failed_init" /\ indexExists' = indexExists
    /\ UNCHANGED <<emails, texts, valid_emails, partial, embeddings, vectors, upserted,
                   ingestRest>>

\* vectors = prepare_email_vectors(valid_emails, embeddings)
IPrepareVectors ==
    /\ ipc = "vectors"
    /\ vectors' = prepare_email_vectors(valid_emails, embeddings)
    /\ ipc' = "upsert"
    /\ UNCHANGED <<emails, texts, valid_emails, partial, embeddings, upserted,
                   indexExists, ingestRest>>

\* upsert_embeddings(index, vectors)
IUpsert(ok) ==
    /\ ipc = "upsert"
    /\ IF ok
       THEN ipc' = "done" /\ upserted' = vectors
       ELSE ipc' = "failed_upsert" /\ upserted' = upserted
    /\ UNCHANGED <<emails, texts, valid_emails, partial, embeddings, vectors,
                   indexExists, ingestRest>>

IngestNext ==
    \/ \E es \in FetchResults : IFetch(TRUE, es)
    \/ IFetch(FALSE, <<>>)
    \/ IPrepareTexts
    \/ \E r \in ReplyKinds \cup {"timeout"} : IEmbedOne(r)
    \/ IEmbedReturn
    \/ \E ok \in BOOLEAN : IInitPinecone(ok)
    \/ IPrepareVectors
    \/ \E ok \in BOOLEAN : IUpsert(ok)

IngestSpec == IngestInit /\ [][IngestNext]_vars

(***************************************************************************)
(* Properties.                                                             *)
(***************************************************************************)
\* the invocation has its query result (the query was made and did not raise)
QueryReturned ==
    /\ queryCalls = 1
    /\ pc \in {"ga_matched", "ga_generate", "gen_wait", "ga_done"}
    /\ ~(result.status = "err" /\ result.stage = "query")

\* the prompt has been handed to generate_llm_answer
PromptHandedOver ==
    \/ pc \in {"ga_generate", "gen_wait"}
    \/ pc = "ga_done" /\ result.stage \in {"get_llm", "generate"}
    \/ pc = "ga_done" /\ result.status = "ok" /\ Len(matches) > 0

RECURSIVE SumLen(_)
SumLen(strs) == IF Len(strs) = 0 THEN 0 ELSE Len(strs[1]) + SumLen(Tail(strs))

\* length of the template around the question and the joined contexts
TemplateOverhead ==
    Len("QUESTION:\n") + Len("\n\n") + Len("CONTEXT:\n") + Len("\n\n")
    + Len("Using only the CONTEXT above, answer the QUESTION as accurately and completely as possible.")

\* length of the prompt assembled from q and all of ctxs
FullPromptLen(q, ctxs) ==
    TemplateOverhead + Len(q) + SumLen(ctxs)
    + (IF Len(ctxs) = 0 THEN 0 ELSE 2 * (Len(ctxs) - 1))

RECURSIVE BlankLineJoined(_, _)
\* the first n of ctxs, a blank line between neighbours
BlankLineJoined(ctxs, n) ==
    IF n = 0 THEN ""
    ELSE IF n = 1 THEN ctxs[1]
    ELSE BlankLineJoined(ctxs, n - 1) \o "\n\n" \o ctxs[n]

\* the template of section 4.2 around the first n of ctxs
Template(q, ctxs, n) ==
    "QUESTION:\n" \o q \o "\n\nCONTEXT:\n" \o BlankLineJoined(ctxs, n) \o "\n\n"
    \o "Using only the CONTEXT above, answer the QUESTION as accurately and completely as possible."

\* C1: when the index query returns zero matches, generate_answer returns
\* exactly ("No relevant emails found for your question.", []) and neither
\* constructs a provider nor sends a generate request during that call.
C1_NoMatchesSentinel ==
    (QueryReturned /\ matches = <<>>) =>
        /\ pc \in {"ga_matched", "ga_done"}
        /\ genCalls = 0
        /\ constructed = 0
        /\ pc = "ga_done" =>
              /\ result.status = "ok"
              /\ result.answer = "No relevant emails found for your question."
              /\ result.sources = <<>>

C1_Witness ==
    /\ pc = "ga_done"
    /\ QueryReturned
    /\ matches = <<>>
    /\ result.status = "ok"
    /\ genCalls = 0

\* C2: the prompt handed to the generator is at most MAX_CONTEXT_LENGTH
\* characters long, for every question and every list of matches.
C2_PromptWithinBudget ==
    genCalls = 1 => Len(prompt) <= MAX_CONTEXT_LENGTH

\* C3: whenever the full prompt exceeds the budget, the rebuilt prompt is
\* the template around the first k context blocks, unmodified and in their
\* original order, for some k >= 0.
C3_TruncationKeepsPrefix ==
    (PromptHandedOver /\ FullPromptLen(question, email_contexts) > MAX_CONTEXT_LENGTH) =>
        \E k \in 0..Len(email_contexts) :
            /\ prompt_contexts = SubSeq(email_contexts, 1, k)
            /\ prompt = Template(question, email_contexts, k)

C3_Witness ==
    /\ pc = "gen_wait"
    /\ FullPromptLen(question, email_contexts) > MAX_CONTEXT_LENGTH
    /\ Len(prompt_contexts) >= 1
    /\ Len(prompt_contexts) + 2 <= Len(email_contexts)
    /\ prompt_contexts = SubSeq(email_contexts, 1, Len(prompt_contexts))

\* C4: for a non-empty list of context blocks whose fully assembled prompt
\* is at most the budget long, the prompt sent to the generator is the
\* unabridged template: the question, all blocks joined by a blank line in
\* their original order, then the instruction.
C4_FittingPromptUnabridged ==
    (PromptHandedOver /\ Len(email_contexts) > 0
        /\ FullPromptLen(question, email_contexts) <= MAX_CONTEXT_LENGTH) =>
        /\ prompt = Template(question, email_contexts, Len(email_contexts))
        /\ prompt_contexts = email_contexts

C4_Witness ==
    /\ pc = "gen_wait"
    /\ Len(email_contexts) >= 3
    /\ FullPromptLen(question, email_contexts) <= MAX_CONTEXT_LENGTH
    /\ prompt = Template(question, email_contexts, Len(email_contexts))

\* C5: the i-th context block and the i-th source both come from the i-th
\* match, and the returned sources carry the ids and scores of the matches
\* in the order the index returned them.
C5_SourcesInMatchOrder ==
    (PromptHandedOver /\ Len(matches) > 0) =>
        /\ Len(email_contexts) = Len(matches)
        /\ Len(source_emails) = Len(matches)
        /\ \A i \in 1..Len(matches) :
              /\ source_emails[i].id = matches[i].id
              /\ source_emails[i].score = matches[i].score
              /\ email_contexts[i] = ContextBlock(matches[i].metadata)
        /\ (pc = "ga_done" /\ result.status = "ok") =>
              /\ Len(result.sources) = Len(matches)
              /\ \A i \in 1..Len(matches) :
                    /\ result.sources[i].id = matches[i].id
                    /\ result.sources[i].score = matches[i].score

C5_Witness ==
    /\ pc = "ga_done"
    /\ result.status = "ok"
    /\ Len(matches) >= 3
    /\ Len(result.sources) = Len(matches)
    /\ result.sources[1].id = matches[1].id
    /\ result.sources[1].id # result.sources[3].id

\* sub occurs in s
Contains(s, sub) ==
    \E i \in 1..(Len(s) - Len(sub) + 1) : SubSeq(s, i, i + Len(sub) - 1) = sub

\* C6: get_llm_provider fails for every provider name outside its registered
\* set {ollama} with the factory's unknown-provider error (a ValueError), whose
\* message lists every registered name, and constructs no provider then; for
\* a registered name it returns a provider that implements generate.  get_llm
\* fails the same way for a configured name other than ollama.
C6_UnknownProviderRejected ==
    /\ factory.called =>
          IF factory.name \in {"ollama"}
          THEN /\ factory.status = "ok"
               /\ "generate" \in factory.provider.capabilities
               /\ constructed = 1
          ELSE /\ factory.status = "err"
               /\ factory.kind = "ValueError"
               /\ Contains(factory.msg, "Unknown provider: " \o factory.name)
               /\ \A r \in {"ollama"} : Contains(factory.msg, "'" \o r \o "'")
               /\ factory.provider.capabilities = {}
               /\ constructed = 0
    /\ (pc = "ga_done" /\ result.stage = "get_llm") =>
          /\ LLM_PROVIDER # "ollama"
          /\ result.kind = "ValueError"
          /\ Contains(result.msg, "'ollama'")
          /\ constructed = 0
          /\ genCalls = 0

C6_Witness ==
    /\ factory.called
    /\ factory.name = "replicate"
    /\ factory.status = "err"
    /\ Contains(factory.msg, "['ollama']")

C8_UniformGenerationError ==
    (pc = "ga_done" /\ result.status = "err" /\ result.stage = "generate") =>
        /\ result.kind = "Exception"
        /\ Contains(result.msg, "Ollama API error: ")

\* C9: every generate_answer invocation eventually finishes with a result or
\* an error, whether or not the external services respond.
C9_InvocationTerminates ==
    (pc = "ga_init") ~> (pc = "ga_done")

\* C10: every context block is the lines Subject, From, Date, Content in
\* that order; content is body_preview when present and non-empty, else
\* snippet, else empty; a missing subject, from or date is rendered N/A.
C10_ContextBlockFormat ==
    PromptHandedOver =>
        \A i \in 1..Len(matches) :
            LET md == matches[i].metadata
                subject == IF "subject" \in DOMAIN md THEN md["subject"] ELSE "N/A"
                from == IF "from" \in DOMAIN md THEN md["from"] ELSE "N/A"
                date == IF "date" \in DOMAIN md THEN md["date"] ELSE "N/A"
                content ==
                    IF "body_preview" \in DOMAIN md /\ Len(md["body_preview"]) > 0
                    THEN md["body_preview"]
                    ELSE IF "snippet" \in DOMAIN md THEN md["snippet"] ELSE ""
            IN email_contexts[i] =
                   "Subject: " \o subject \o "\nFrom: " \o from \o "\nDate: " \o date
                   \o "\nContent: " \o content \o "\n"

C10_Witness ==
    /\ pc = "ga_generate"
    /\ \E i, j, k \in 1..Len(matches) :
          /\ "from" \notin DOMAIN matches[i].metadata
          /\ "body_preview" \in DOMAIN matches[i].metadata
          /\ "snippet" \in DOMAIN matches[i].metadata
          /\ SubSeq(email_contexts[i], 1, 45) = "Subject: Quarterly report\nFrom: N/A\nDate: Tue"
          /\ "body_preview" \in DOMAIN matches[j].metadata
          /\ matches[j].metadata["body_preview"] = ""
          /\ email_contexts[j] = "Subject: Lunch\nFrom: b@x.com\nDate: Sat\nContent: Lunch on Friday?\n"
          /\ DOMAIN matches[k].metadata = {}
          /\ email_contexts[k] = "Subject: N/A\nFrom: N/A\nDate: N/A\nContent: \n"

\* C11: within one generate_answer call the stages embed, query, generate
\* run in that order, each at most once: the index is queried only after the
\* one embedding request succeeded, the generator is invoked only after a
\* non-empty query result, and a failing stage ends the call with its error,
\* no stage being started after it or a second time.
C11_StagesOnceInOrder ==
    [][ /\ embedCalls' <= 1 /\ queryCalls' <= 1 /\ genCalls' <= 1
        /\ queryCalls' = 1 => embedCalls' = 1
        /\ genCalls' = 1 => (queryCalls' = 1 /\ Len(matches') > 0)
        /\ (pc = "embed_wait" /\ pc' # "embed_wait") =>
              \/ pc' = "ga_query" /\ result' = result
              \/ pc' = "ga_done" /\ result'.status = "err" /\ result'.stage = "embed"
                 /\ queryCalls' = 0 /\ genCalls' = 0
        /\ (pc = "ga_query" /\ pc' # "ga_query") =>
              \/ pc' = "ga_matched"
              \/ pc' = "ga_done" /\ result'.status = "err" /\ result'.stage = "query"
                 /\ genCalls' = 0
        /\ (pc = "gen_wait" /\ pc' # "gen_wait") =>
              /\ pc' = "ga_done"
              /\ genCalls' = 1
        /\ (pc = "ga_done" /\ pc' # "ga_done") =>
              /\ pc' = "prompt"
              /\ embedCalls' = 0 /\ queryCalls' = 0 /\ genCalls' = 0
      ]_vars

C11_Witness ==
    /\ pc = "ga_done"
    /\ result.status = "err"
    /\ result.stage = "query"
    /\ embedCalls = 1
    /\ queryCalls = 1
    /\ genCalls = 0

\* C12: in the truncation branch the contexts are taken greedily in rank
\* order: a context is included exactly when the accumulated length of the
\* included ones plus its own length does not exceed the available budget
\* MAX_CONTEXT_LENGTH - len(question) - 100, a context that fills the budget
\* exactly included.
C12_GreedyUpToAvailable ==
    (PromptHandedOver /\ FullPromptLen(question, email_contexts) > MAX_CONTEXT_LENGTH) =>
        LET available == 3000 - Len(question) - 100
            k == Len(prompt_contexts)
        IN /\ k <= Len(email_contexts)
           /\ \A i \in 1..k : SumLen(SubSeq(email_contexts, 1, i)) <= available
           /\ k < Len(email_contexts) =>
                 SumLen(SubSeq(email_contexts, 1, k + 1)) > available

\* C15: the returned sources do not depend on the truncation of the prompt:
\* with matches and a successful generation there is exactly one source per
\* match (at most TOP_K_RESULTS), also for matches whose block was dropped
\* from the prompt, and the generator was invoked once, also when no block
\* was left in the prompt.
C15_SourcesIgnoreTruncation ==
    /\ (pc = "ga_done" /\ result.status = "ok" /\ Len(matches) > 0) =>
          /\ genCalls = 1
          /\ Len(result.sources) = Len(matches)
          /\ Len(result.sources) <= 5
          /\ \A i \in 1..Len(matches) :
                /\ result.sources[i].id = matches[i].id
                /\ result.sources[i].subject =
                      (IF "subject" \in DOMAIN matches[i].metadata
                       THEN matches[i].metadata["subject"] ELSE "N/A")
    /\ (pc = "ga_done" /\ Len(matches) > 0 /\ LLM_PROVIDER = "ollama") =>
          /\ genCalls = 1
          /\ result.status = "ok" \/ result.stage = "generate"

C15_Witness ==
    /\ pc = "ga_done"
    /\ result.status = "ok"
    /\ genCalls = 1
    /\ Len(matches) = 5
    /\ Len(prompt_contexts) = 0
    /\ Len(result.sources) = 5

\* the outcome of generate_answer run alone against the responses rs
AloneOutcome(rs) ==
    IF rs.embedReply # "ok"
    THEN Raised("Exception", "embed", "Ollama embedding API error: 500 Server Error")
    ELSE IF rs.ms = <<>>
    THEN Returned("No relevant emails found for your question.", <<>>)
    ELSE IF rs.genReply = "missing_field"
    THEN Raised("KeyError", "generate", "'response'")
    ELSE Returned(Strip(rs.text), [i \in 1..Len(rs.ms) |-> SourceOf(rs.ms[i])])

\* C13: concurrent generate_answer invocations are independent: whatever the
\* interleaving, each invocation ends with the outcome it has when run alone
\* against the same external responses.
C13_ConcurrentIndependent ==
    \A p \in DOMAIN cpc : cpc[p] = "done" => cres[p] = AloneOutcome(cin[p])

\* the fetched email at position j has content to embed
Embeddable(j) ==
    LET content == IF emails[j].body # "" THEN emails[j].body ELSE emails[j].snippet
    IN Strip(content) # ""

\* the text embedded for the fetched email at position j
EmbeddedText(j) ==
    "Subject: " \o emails[j].subject \o "\n\nContent: "
    \o (IF emails[j].body # "" THEN emails[j].body ELSE emails[j].snippet)

\* the position of email j among the emails with content
RankAmongEmbeddable(j) == Cardinality({ k \in 1..j : Embeddable(k) })

\* the records pair each email that has content, in fetch order, with the
\* embedding of that email's own text
PairedWithOwnEmbedding(records) ==
    /\ Len(records) = Cardinality({ j \in 1..Len(emails) : Embeddable(j) })
    /\ \A j \in 1..Len(emails) :
          Embeddable(j) =>
              LET rec == records[RankAmongEmbeddable(j)] IN
                /\ rec.id = emails[j].id
                /\ rec.values = [embedding_of |-> EmbeddedText(j)]
                /\ \A key \in DOMAIN rec.metadata \cap {"subject", "from", "date", "threadId"} :
                      rec.metadata[key] = emails[j][key]
                /\ "subject" \in DOMAIN rec.metadata <=> emails[j].subject # ""

\* C14: get_embeddings returns one vector per input text, in input order,
\* or fails and returns no list at all; every record handed to upsert pairs
\* an email's id and metadata with the embedding of that same email's text,
\* also when fetched emails without content were skipped.
C14_EmbeddingsStayAligned ==
    /\ ipc \in {"init", "vectors", "upsert", "done", "failed_init", "failed_upsert"} =>
          /\ Len(embeddings) = Len(texts)
          /\ \A i \in 1..Len(texts) : embeddings[i] = [embedding_of |-> texts[i]]
    /\ ipc = "failed_embed" =>
          /\ embeddings = <<>>
          /\ vectors = <<>>
          /\ upserted = <<>>
    /\ ipc \in {"upsert", "done", "failed_upsert"} => PairedWithOwnEmbedding(vectors)
    /\ ipc = "done" => PairedWithOwnEmbedding(upserted)
    /\ ipc # "done" => upserted = <<>>

C14_Witness ==
    /\ ipc = "done"
    /\ Len(emails) = 3
    /\ ~Embeddable(1)
    /\ Embeddable(2)
    /\ Embeddable(3)
    /\ Len(upserted) = 2
    /\ upserted[1].id = emails[2].id
    /\ upserted[2].values = [embedding_of |-> EmbeddedText(3)]

====
